---- MODULE Spec2Model ----
(***************************************************************************)
(* thrift-pool: ThriftConnectionManager over MakeThriftConnectionFromAddrs *)
(* (src/src/lib.rs).  The model follows connect calls of the bb8 and r2d2  *)
(* hooks statement by statement through make_thrift_connection, with the   *)
(* Rust ownership of the channel, its two halves, the transports, the      *)
(* protocols and the client made explicit, and the has_broken / is_valid   *)
(* hooks acting on the connections a pool holds.                           *)
(***************************************************************************)
EXTENDS Integers, Sequences, FiniteSets, TLC

\* Number of connect calls issued against the managers.
MaxCalls == 2
Calls == 1..MaxCalls

\* Values of S: ToSocketAddrs the adapter may be built with.
Addrs == {"127.0.0.1:9090", "127.0.0.1:1"}

\* The manager values of the crate's example: the one into_connection_manager
\* built, given to r2d2, and the clone of it given to bb8.
Managers == {"manager", "manager.clone()"}

\* Client types T with their bindings of RT, IP, WT, OP among the crate's
\* implementors (buffered or framed transports, binary or compact protocols):
\* the framed compact client of the crate's examples, which keeps the provided
\* has_broken, and a buffered binary client that writes its own.
ClientTypes ==
    { [rt |-> "framed", ip |-> "compact", wt |-> "framed", op |-> "compact",
       client |-> "provided_has_broken"],
      [rt |-> "buffered", ip |-> "binary", wt |-> "buffered", op |-> "binary",
       client |-> "own_has_broken"] }

\* What TTcpChannel::open can meet at the endpoint.
OpenOutcomes == {"connected", "refused", "unresolved"}
\* Errors of the I/O steps (open, split) of make_thrift_connection.
OpenErrors == {"ConnectionRefused", "ResolveFailed"}
SplitErrors == {"CannotClone"}
IoErrors == OpenErrors \cup SplitErrors
\* Errors a client's own is_valid may report.
ValidationErrors == {"PingTimedOut", "PeerClosed"}

None == [tag |-> "none"]
Ok(v) == [tag |-> "ok", val |-> v]
Err(e) == [tag |-> "err", err |-> e]
IsOk(r) == r.tag = "ok"
IsErr(r) == r.tag = "err"

\* The statements of make_thrift_connection, in program order.
StepOrder ==
    << "open", "split", "from_read", "from_read_transport",
       "from_write", "from_write_transport", "from_protocol" >>

VARIABLES
    cfg,        \* generic bindings of the manager type: RT, IP, WT, OP and T
    managers,   \* the manager values, each holding its addrs
    pc,         \* per call: position in connect / make_thrift_connection
    hook,       \* per call: the trait through which connect was called
    mgr,        \* per call: the manager the call borrows (&self) until addrs is read
    frame,      \* per call: the locals of make_thrift_connection
    trace,      \* per call: the statements executed so far
    outcome,    \* per call: what the endpoint and the OS answered
    result,     \* per call: the value connect returned to the pool
    conn,       \* per call: the connection the pool holds, if any
    fds,        \* the open socket descriptors of the process
    built,      \* number of clients from_protocol has constructed
    ret         \* the value a has_broken / is_valid hook has just returned to the
                \* pool, None once any other step has been taken

vars == << cfg, managers, pc, hook, mgr, frame, trace, outcome, result, conn,
           fds, built, ret >>

EmptyFrame ==
    [ channel |-> None, read |-> None, write |-> None,
      read_transport |-> None, input_protocol |-> None,
      write_transport |-> None, output_protocol |-> None, value |-> None ]

NoOutcome == [addrs |-> "none", open |-> "none", split |-> "none"]

\* MakeThriftConnectionFromAddrs::new keeps addrs and nothing else.
MakeThriftConnectionFromAddrs_new(addrs) == [addrs |-> addrs]

\* into_connection_manager / ThriftConnectionManager::new wrap the maker unchanged.
ThriftConnectionManager_new(maker) == maker

\* Clone for ThriftConnectionManager and MakeThriftConnectionFromAddrs: addrs.clone().
ThriftConnectionManager_clone(m) == [addrs |-> m.addrs]

Init ==
    /\ cfg \in ClientTypes
    /\ \E a \in Addrs :
         LET manager == ThriftConnectionManager_new(MakeThriftConnectionFromAddrs_new(a)) IN
         managers = [m \in Managers |->
                        IF m = "manager" THEN manager
                        ELSE ThriftConnectionManager_clone(manager)]
    /\ pc = [c \in Calls |-> "idle"]
    /\ hook = [c \in Calls |-> "none"]
    /\ mgr = [c \in Calls |-> "none"]
    /\ frame = [c \in Calls |-> EmptyFrame]
    /\ trace = [c \in Calls |-> << >>]
    /\ outcome = [c \in Calls |-> NoOutcome]
    /\ result = [c \in Calls |-> None]
    /\ conn = [c \in Calls |-> None]
    /\ fds = {}
    /\ built = 0
    /\ ret = None

----------------------------------------------------------------------------
\* Entry of a connect hook: self.0.make_thrift_connection() is called on &self.
\* Calls are numbered in the order they enter.
Enter(c, m, h) ==
    /\ pc[c] = "idle"
    /\ \A d \in Calls : d < c => pc[d] # "idle"
    /\ pc' = [pc EXCEPT ![c] = "open"]
    /\ hook' = [hook EXCEPT ![c] = h]
    /\ mgr' = [mgr EXCEPT ![c] = m]
    /\ ret' = None
    /\ UNCHANGED << cfg, managers, frame, trace, outcome, result, conn,
                    fds, built >>

\* bb8::ManageConnection::connect, up to the call of make_thrift_connection.
bb8_connect(c, m) == Enter(c, m, "bb8")

\* r2d2::ManageConnection::connect, up to the call of make_thrift_connection.
r2d2_connect(c, m) == Enter(c, m, "r2d2")

----------------------------------------------------------------------------
\* make_thrift_connection, one statement per action.  The connect hooks end
\* in the call, so the function's return is the hook's return.

\* The write side wrapped before the input protocol is built.
Following_write_first(stmt) ==
    CASE stmt = "open" -> "split"
      [] stmt = "split" -> "from_read"
      [] stmt = "from_read" -> "from_write"
      [] stmt = "from_write" -> "from_read_transport"
      [] stmt = "from_read_transport" -> "from_write_transport"
      [] stmt = "from_write_transport" -> "from_protocol"

\* The statement that follows stmt when it did not return.
Following(stmt) ==
    CASE stmt = "open" -> "split"
      [] stmt = "split" -> "from_read"
      [] stmt = "from_read" -> "from_read_transport"
      [] stmt = "from_read_transport" -> "from_write"
      [] stmt = "from_write" -> "from_write_transport"
      [] stmt = "from_write_transport" -> "from_protocol"

\* A conversion that loses the error it is given.
From_from_lossy(e) == "Unknown"

\* The conversion ? applies to the error: Self::Error is thrift::Error, the
\* error type of open and split, so From::from is the reflexive impl.
From_from(e) == e

\* A stream kept from one call to the next instead of opened per call.
TcpStream_connect_shared(c) == 1

\* The TcpStream the fresh TTcpChannel of call c gets from open: a socket of
\* its own, opened for this call.
TcpStream_connect(c) == c

\* A channel whose drop leaves its descriptor open.
DropChannel_leaks(open_fds, ch) == open_fds

\* Dropping a TTcpChannel that holds a stream closes its descriptor.
DropChannel(open_fds, ch) == open_fds \ {[stream |-> ch.stream, fd |-> "orig"]}

\* The error the endpoint's answer becomes.
OpenError(o) == IF o = "refused" THEN "ConnectionRefused" ELSE "ResolveFailed"

\* bb8::ManageConnection::connect: self.0.make_thrift_connection()
bb8_connect_value(made) == made

\* A hook that reports every failure as one error of its own.
r2d2_connect_value_remapped(made) ==
    IF IsErr(made) THEN Err("ConnectFailed") ELSE made

\* r2d2::ManageConnection::connect: self.0.make_thrift_connection()
r2d2_connect_value(made) == made

ConnectValue(h, made) ==
    IF h = "bb8" THEN bb8_connect_value(made) ELSE r2d2_connect_value(made)

\* The connection a pool holds once connect returned Ok: not used yet, its peer well.
NewConn(client) == [client |-> client, health |-> "ok", used |-> FALSE]

\* Statement stmt of call c ran and control goes on to the next statement.
Continue(c, stmt, new_frame) ==
    /\ pc[c] = stmt
    /\ pc' = [pc EXCEPT ![c] = Following(stmt)]
    /\ frame' = [frame EXCEPT ![c] = new_frame]
    /\ trace' = [trace EXCEPT ![c] = Append(@, stmt)]
    /\ ret' = None
    /\ UNCHANGED << cfg, managers, hook, result, conn >>

\* Statement stmt of call c ran and the function returns made, which the hook
\* hands to the pool; the locals are gone with the frame.
Return(c, stmt, made) ==
    LET value == ConnectValue(hook[c], made) IN
    /\ pc[c] = stmt
    /\ pc' = [pc EXCEPT ![c] = "done"]
    /\ frame' = [frame EXCEPT ![c] = EmptyFrame]
    /\ trace' = [trace EXCEPT ![c] = Append(@, stmt)]
    /\ result' = [result EXCEPT ![c] = value]
    /\ conn' = [conn EXCEPT ![c] = IF IsOk(value) THEN NewConn(value.val) ELSE None]
    /\ ret' = None
    /\ UNCHANGED << cfg, managers, hook >>

\* open tried again after a first failure.
TTcpChannel_open_retrying(c) ==
    \E o \in OpenOutcomes :
        /\ pc[c] = "open"
        /\ outcome' = [outcome EXCEPT ![c].addrs = managers[mgr[c]].addrs,
                                      ![c].open = o]
        /\ IF o = "connected"
           THEN /\ Continue(c, "open", [frame[c] EXCEPT !.channel = [stream |-> c]])
                /\ fds' = fds \cup {[stream |-> c, fd |-> "orig"]}
                /\ mgr' = [mgr EXCEPT ![c] = "none"]
           ELSE IF trace[c] = << >>
           THEN /\ trace' = [trace EXCEPT ![c] = Append(@, "open")]
                /\ ret' = None
                /\ UNCHANGED << cfg, managers, hook, result, conn, pc, frame, fds, mgr >>
           ELSE /\ Return(c, "open", Err(From_from(OpenError(o))))
                /\ mgr' = [mgr EXCEPT ![c] = "none"]
                /\ UNCHANGED fds
        /\ UNCHANGED built

\* let mut channel = TTcpChannel::new(); channel.open(self.addrs.clone())?;
TTcpChannel_open(c) ==
    \E o \in OpenOutcomes :
        /\ pc[c] = "open"
        /\ outcome' = [outcome EXCEPT ![c].addrs = managers[mgr[c]].addrs,
                                      ![c].open = o]
        /\ IF o = "connected"
           THEN LET s == TcpStream_connect(c) IN
                /\ Continue(c, "open", [frame[c] EXCEPT !.channel = [stream |-> s]])
                /\ fds' = fds \cup {[stream |-> s, fd |-> "orig"]}
           ELSE /\ Return(c, "open", Err(From_from(OpenError(o))))
                /\ UNCHANGED fds
        /\ mgr' = [mgr EXCEPT ![c] = "none"]
        /\ UNCHANGED built

\* let (read, write) = channel.split()?;  split consumes the channel: on
\* success the stream moves to the read half and its clone to the write half,
\* on failure the channel is dropped inside split.
TTcpChannel_split(c) ==
    \E cloned \in BOOLEAN :
        LET ch == frame[c].channel IN
        /\ pc[c] = "split"
        /\ outcome' = [outcome EXCEPT ![c].split = IF cloned THEN "cloned" ELSE "failed"]
        /\ IF cloned
           THEN /\ Continue(c, "split",
                            [frame[c] EXCEPT
                                !.channel = None,
                                !.read = [stream |-> ch.stream, fd |-> "orig"],
                                !.write = [stream |-> ch.stream, fd |-> "clone"]])
                /\ fds' = fds \cup {[stream |-> ch.stream, fd |-> "clone"]}
           ELSE /\ Return(c, "split", Err(From_from("CannotClone")))
                /\ fds' = DropChannel(fds, ch)
        /\ UNCHANGED << mgr, built >>

\* FromRead::from_read for TBufferedReadTransport and TFramedReadTransport.
FromRead_from_read(kind, read) == [kind |-> kind, read |-> read]

\* FromWrite::from_write for TBufferedWriteTransport and TFramedWriteTransport.
FromWrite_from_write(kind, write) == [kind |-> kind, write |-> write]

\* FromReadTransport::from_read_transport: Self::new(r_tran, true) for the
\* binary protocol, Self::new(r_tran) for the compact one.
FromReadTransport_from_read_transport(kind, r_tran) ==
    IF kind = "binary"
    THEN [kind |-> "binary", strict |-> TRUE, transport |-> r_tran]
    ELSE [kind |-> "compact", transport |-> r_tran]

\* A binary output protocol built non-strict.
FromWriteTransport_from_write_transport_lax(kind, w_tran) ==
    IF kind = "binary"
    THEN [kind |-> "binary", strict |-> FALSE, transport |-> w_tran]
    ELSE [kind |-> "compact", transport |-> w_tran]

\* FromWriteTransport::from_write_transport: Self::new(w_tran, true) for the
\* binary protocol, Self::new(w_tran) for the compact one.
FromWriteTransport_from_write_transport(kind, w_tran) ==
    IF kind = "binary"
    THEN [kind |-> "binary", strict |-> TRUE, transport |-> w_tran]
    ELSE [kind |-> "compact", transport |-> w_tran]

\* FromProtocol::from_protocol of a generated client: it keeps both protocols.
FromProtocol_from_protocol(input_protocol, output_protocol) ==
    [i_prot |-> input_protocol, o_prot |-> output_protocol]

\* let read_transport = RT::from_read(read);
from_read(c) ==
    /\ Continue(c, "from_read",
                [frame[c] EXCEPT
                    !.read = None,
                    !.read_transport = FromRead_from_read(cfg.rt, frame[c].read)])
    /\ UNCHANGED << mgr, outcome, fds, built >>

\* let input_protocol = IP::from_read_transport(read_transport);
from_read_transport(c) ==
    /\ Continue(c, "from_read_transport",
                [frame[c] EXCEPT
                    !.read_transport = None,
                    !.input_protocol =
                        FromReadTransport_from_read_transport(cfg.ip, frame[c].read_transport)])
    /\ UNCHANGED << mgr, outcome, fds, built >>

\* let write_transport = WT::from_write(write);
from_write(c) ==
    /\ Continue(c, "from_write",
                [frame[c] EXCEPT
                    !.write = None,
                    !.write_transport = FromWrite_from_write(cfg.wt, frame[c].write)])
    /\ UNCHANGED << mgr, outcome, fds, built >>

\* let output_protocol = OP::from_write_transport(write_transport);
from_write_transport(c) ==
    /\ Continue(c, "from_write_transport",
                [frame[c] EXCEPT
                    !.write_transport = None,
                    !.output_protocol =
                        FromWriteTransport_from_write_transport(cfg.op, frame[c].write_transport)])
    /\ UNCHANGED << mgr, outcome, fds, built >>

\* from_protocol called twice, the first client thrown away.
from_protocol_twice(c) ==
    /\ Return(c, "from_protocol",
              Ok(FromProtocol_from_protocol(frame[c].input_protocol,
                                            frame[c].output_protocol)))
    /\ built' = built + 2
    /\ UNCHANGED << mgr, outcome, fds >>

\* Ok(T::from_protocol(input_protocol, output_protocol))
from_protocol(c) ==
    /\ Return(c, "from_protocol",
              Ok(FromProtocol_from_protocol(frame[c].input_protocol,
                                            frame[c].output_protocol)))
    /\ built' = built + 1
    /\ UNCHANGED << mgr, outcome, fds >>

----------------------------------------------------------------------------
\* The lifecycle of a connection the pool holds.

Live(c) == conn[c] # None

\* A provided has_broken that looks at the connection.
ThriftConnection_has_broken_probing(kind, cn) == cn.health = "PeerClosed"

\* ThriftConnection::has_broken: the provided method returns false; a client
\* type that writes its own answers from its own state, here from the I/O
\* error it met when its peer closed the stream.
ThriftConnection_has_broken(kind, cn) ==
    IF kind = "provided_has_broken" THEN FALSE ELSE cn.health = "PeerClosed"

\* ThriftConnection::is_valid: required of the client type; it answers from
\* the state of its connection, Ok(()) or its own error.
ThriftConnection_is_valid(cn) ==
    IF cn.health = "ok" THEN Ok(None) ELSE Err(cn.health)

Observed(c, h, op, value) ==
    [op |-> op, hook |-> h, call |-> c, value |-> value]

HasBroken(c, h, value) ==
    /\ Live(c)
    /\ ret' = Observed(c, h, "has_broken", value)
    /\ UNCHANGED << cfg, managers, pc, hook, mgr, frame, trace, outcome, result,
                    conn, fds, built >>

IsValid(c, h, value) ==
    /\ Live(c)
    /\ ret' = Observed(c, h, "is_valid", value)
    /\ conn' = [conn EXCEPT ![c].used = TRUE]
    /\ UNCHANGED << cfg, managers, pc, hook, mgr, frame, trace, outcome, result,
                    fds, built >>

\* bb8::ManageConnection::has_broken: conn.has_broken()
bb8_has_broken_value(kind, cn) == ThriftConnection_has_broken(kind, cn)

\* A hook that wraps the client's error in one of its own.
bb8_is_valid_value_wrapping(cn) ==
    IF cn.health = "ok" THEN Ok(None) ELSE Err("Invalid")

\* bb8::ManageConnection::is_valid: conn.is_valid()
bb8_is_valid_value(cn) == ThriftConnection_is_valid(cn)

\* r2d2::ManageConnection::has_broken: conn.has_broken()
r2d2_has_broken_value(kind, cn) == ThriftConnection_has_broken(kind, cn)

\* r2d2::ManageConnection::is_valid: conn.is_valid()
r2d2_is_valid_value(cn) == ThriftConnection_is_valid(cn)

\* The pool calls bb8::ManageConnection::has_broken on a connection it holds.
bb8_has_broken(c) == HasBroken(c, "bb8", bb8_has_broken_value(cfg.client, conn[c]))

\* The pool calls bb8::ManageConnection::is_valid on a connection it holds.
bb8_is_valid(c) == IsValid(c, "bb8", bb8_is_valid_value(conn[c]))

\* The pool calls r2d2::ManageConnection::has_broken on a connection it holds.
r2d2_has_broken(c) == HasBroken(c, "r2d2", r2d2_has_broken_value(cfg.client, conn[c]))

\* The pool calls r2d2::ManageConnection::is_valid on a connection it holds.
r2d2_is_valid(c) == IsValid(c, "r2d2", r2d2_is_valid_value(conn[c]))

\* The descriptors a client owns through its protocols and transports.
ClientFds(client) ==
    { client.i_prot.transport.read, client.o_prot.transport.write }

\* The pool drops a connection: the client, its protocols, transports and
\* halves are dropped with it, which closes their descriptors.
Drop(c) ==
    /\ Live(c)
    /\ fds' = fds \ ClientFds(conn[c].client)
    /\ conn' = [conn EXCEPT ![c] = None]
    /\ ret' = None
    /\ UNCHANGED << cfg, managers, pc, hook, mgr, frame, trace, outcome, result,
                    built >>

\* The peer or the network fails a held connection: what the client's own
\* is_valid and has_broken will see from now on.
Fault(c) ==
    /\ Live(c)
    /\ conn[c].health = "ok"
    /\ \E e \in ValidationErrors :
         conn' = [conn EXCEPT ![c].health = e, ![c].used = TRUE]
    /\ ret' = None
    /\ UNCHANGED << cfg, managers, pc, hook, mgr, frame, trace, outcome, result,
                    fds, built >>

----------------------------------------------------------------------------
Next ==
    \/ \E c \in Calls, m \in Managers : bb8_connect(c, m)
    \/ \E c \in Calls, m \in Managers : r2d2_connect(c, m)
    \/ \E c \in Calls : TTcpChannel_open(c)
    \/ \E c \in Calls : TTcpChannel_split(c)
    \/ \E c \in Calls : from_read(c)
    \/ \E c \in Calls : from_read_transport(c)
    \/ \E c \in Calls : from_write(c)
    \/ \E c \in Calls : from_write_transport(c)
    \/ \E c \in Calls : from_protocol(c)
    \/ \E c \in Calls : bb8_has_broken(c)
    \/ \E c \in Calls : bb8_is_valid(c)
    \/ \E c \in Calls : r2d2_has_broken(c)
    \/ \E c \in Calls : r2d2_is_valid(c)
    \/ \E c \in Calls : Drop(c)
    \/ \E c \in Calls : Fault(c)

Spec == Init /\ [][Next]_vars

----------------------------------------------------------------------------
\* Vocabulary of the properties.

Done(c) == pc[c] = "done"
Succeeded(c) == Done(c) /\ IsOk(result[c])
Failed(c) == Done(c) /\ IsErr(result[c])
Count(seq, x) == Cardinality({i \in DOMAIN seq : seq[i] = x})
\* The descriptors of the socket call c opened.
FdsOf(c) == {f \in fds : f.stream = c}

----------------------------------------------------------------------------
\* C1: the number of clients constructed equals the number of connect calls
\* that returned Ok; a call that returned Ok ran from_protocol exactly once
\* and handed over a client, a call that returned Err or has not returned
\* ran from_protocol zero times and handed over nothing.
C1_OneClientPerSuccessfulConnect ==
    /\ built = Cardinality({c \in Calls : Succeeded(c)})
    /\ \A c \in Calls :
         /\ Succeeded(c) =>
              /\ Count(trace[c], "from_protocol") = 1
              /\ result[c].val # None
         /\ ~Succeeded(c) =>
              /\ Count(trace[c], "from_protocol") = 0
              /\ conn[c] = None

\* One call returned Ok and another returned Err: one client was built.
C1_Witness ==
    \E c, d \in Calls : Succeeded(c) /\ Failed(d) /\ built = 1

\* C2: a connect that met a refusing or unresolvable endpoint returned Err
\* with the very error open met, an error of the I/O steps, and the pool got
\* no connection from it.
C2_RefusedConnectReportsIoError ==
    \A c \in Calls :
        Done(c) /\ outcome[c].open \in {"refused", "unresolved"} =>
            /\ IsErr(result[c])
            /\ result[c].err \in IoErrors
            /\ outcome[c].open = "refused" => result[c].err = "ConnectionRefused"
            /\ outcome[c].open = "unresolved" => result[c].err = "ResolveFailed"
            /\ conn[c] = None
            /\ built = Cardinality({d \in Calls : Succeeded(d)})

\* A bb8 connect met a refusing endpoint and an r2d2 connect an unresolvable one.
C2_Witness ==
    \E c, d \in Calls :
        /\ Done(c) /\ hook[c] = "bb8" /\ outcome[c].open = "refused"
        /\ Done(d) /\ hook[d] = "r2d2" /\ outcome[d].open = "unresolved"

\* What a fully wired client of call c looks like: both protocols, each over
\* its transport, each transport over its half of the call's stream.
FullyWired(client, c) ==
    /\ client.i_prot # None /\ client.o_prot # None
    /\ client.i_prot.kind = cfg.ip /\ client.o_prot.kind = cfg.op
    /\ client.i_prot.transport.kind = cfg.rt
    /\ client.o_prot.transport.kind = cfg.wt
    /\ client.i_prot.transport.read = [stream |-> c, fd |-> "orig"]
    /\ client.o_prot.transport.write = [stream |-> c, fd |-> "clone"]

C3_AtomicState ==
    \A c \in Calls :
        /\ Failed(c) =>
             /\ frame[c] = EmptyFrame
             /\ FdsOf(c) = {}
             /\ conn[c] = None
        /\ Succeeded(c) =>
             /\ frame[c] = EmptyFrame
             /\ FullyWired(result[c].val, c)

\* C3: after a build that failed at open or at split nothing of the attempt
\* is left (no local, no open descriptor, no connection); after a build that
\* succeeded the client has its input and its output protocol, wired down to
\* the two halves of its stream; and no step changes what a manager stores.
C3_BuildIsAtomic == [](C3_AtomicState) /\ [][managers' = managers]_vars

\* A build failed at the split step, after its stream had been opened.
C3_Witness ==
    \E c \in Calls : Failed(c) /\ outcome[c].split = "failed"

----------------------------------------------------------------------------
\* How a client is wired, the identity of its stream left out.
Strictness(prot) == IF prot.kind = "binary" THEN << prot.strict >> ELSE << >>

Wiring(client) ==
    [ ip |-> client.i_prot.kind, op |-> client.o_prot.kind,
      rt |-> client.i_prot.transport.kind, wt |-> client.o_prot.transport.kind,
      strict |-> << Strictness(client.i_prot), Strictness(client.o_prot) >>,
      read |-> client.i_prot.transport.read.fd,
      write |-> client.o_prot.transport.write.fd ]

SameResult(r1, r2) ==
    \/ IsErr(r1) /\ IsErr(r2) /\ r1.err = r2.err
    \/ IsOk(r1) /\ IsOk(r2) /\ Wiring(r1.val) = Wiring(r2.val)

\* C4: a bb8 connect and an r2d2 connect that met the same endpoint state
\* (same address, same answer to open, same answer to split) returned the
\* same error or clients wired alike; and the value a has_broken or is_valid
\* hook has just returned is the one both the bb8 and the r2d2 hook compute
\* for that connection.
C4_HooksAgree ==
    /\ \A c, d \in Calls :
         /\ Done(c) /\ hook[c] = "bb8"
         /\ Done(d) /\ hook[d] = "r2d2"
         /\ outcome[c] = outcome[d]
         => SameResult(result[c], result[d])
    /\ ret # None =>
         LET cn == conn[ret.call] IN
         /\ ret.op = "has_broken" =>
              /\ ret.value = bb8_has_broken_value(cfg.client, cn)
              /\ ret.value = r2d2_has_broken_value(cfg.client, cn)
         /\ ret.op = "is_valid" =>
              /\ ret.value = bb8_is_valid_value(cn)
              /\ ret.value = r2d2_is_valid_value(cn)

\* A bb8 connect and an r2d2 connect both refused by the endpoint.
C4_Witness ==
    \E c, d \in Calls :
        /\ Failed(c) /\ hook[c] = "bb8"
        /\ Failed(d) /\ hook[d] = "r2d2"
        /\ outcome[c] = outcome[d]
        /\ outcome[c].open = "refused"

\* The descriptors the locals of call c hold, directly or wrapped.
FrameFds(c) ==
    LET f == frame[c] IN
    (IF f.channel # None THEN {[stream |-> f.channel.stream, fd |-> "orig"]} ELSE {})
    \cup (IF f.read # None THEN {f.read} ELSE {})
    \cup (IF f.write # None THEN {f.write} ELSE {})
    \cup (IF f.read_transport # None THEN {f.read_transport.read} ELSE {})
    \cup (IF f.write_transport # None THEN {f.write_transport.write} ELSE {})
    \cup (IF f.input_protocol # None THEN {f.input_protocol.transport.read} ELSE {})
    \cup (IF f.output_protocol # None THEN {f.output_protocol.transport.write} ELSE {})

\* C5: whatever the interleaving of the connect calls and of the drops, a
\* held client owns both halves of one stream, no other held client and no
\* call in progress owns either of them, its descriptors are open and it is
\* still the client its connect returned.
C5_ClientsShareNothing ==
    \A c \in Calls :
        Live(c) =>
            LET cl == conn[c].client IN
            /\ cl.i_prot.transport.read.stream = cl.o_prot.transport.write.stream
            /\ ClientFds(cl) \subseteq fds
            /\ cl = result[c].val
            /\ \A d \in Calls \ {c} :
                 /\ Live(d) => ClientFds(cl) \cap ClientFds(conn[d].client) = {}
                 /\ ClientFds(cl) \cap FrameFds(d) = {}

\* Of two clients built by interleaved calls one was dropped and the other is held.
C5_Witness ==
    \E c, d \in Calls :
        /\ Succeeded(c) /\ ~Live(c)
        /\ Succeeded(d) /\ Live(d)
        /\ ClientFds(conn[d].client) \subseteq fds

\* C6: the value an is_valid hook, bb8 or r2d2, has just returned is Ok(())
\* when the client's probe succeeds and otherwise Err of the client's own
\* error, as it is.
C6_IsValidDelegates ==
    ret # None /\ ret.op = "is_valid" =>
        LET cn == conn[ret.call] IN
        /\ cn.health = "ok" => ret.value = Ok(None)
        /\ cn.health # "ok" => ret.value = Err(cn.health)

\* The bb8 is_valid hook returned the error of a client whose ping timed out.
C6_Witness ==
    /\ ret # None /\ ret.op = "is_valid" /\ ret.hook = "bb8"
    /\ ret.value = Err("PingTimedOut")

\* C7: the value a has_broken hook has just returned is a boolean, the one
\* the client's own has_broken gives, and it is false for a client type that
\* keeps the provided has_broken, whatever the state of the connection.
C7_HasBrokenDelegates ==
    ret # None /\ ret.op = "has_broken" =>
        /\ ret.value \in BOOLEAN
        /\ ret.value = ThriftConnection_has_broken(cfg.client, conn[ret.call])
        /\ cfg.client = "provided_has_broken" => ret.value = FALSE

\* has_broken returned false on a connection just built and never used, of a
\* client type that keeps the provided has_broken.
C7_Witness ==
    /\ ret # None /\ ret.op = "has_broken" /\ ret.value = FALSE
    /\ cfg.client = "provided_has_broken"
    /\ ~conn[ret.call].used

\* The binary protocols that exist: in the locals of a call or in a client.
BinaryProtocols ==
    LET all ==
        UNION { {frame[c].input_protocol, frame[c].output_protocol} : c \in Calls }
        \cup UNION { {result[c].val.i_prot, result[c].val.o_prot} :
                       c \in {d \in Calls : Succeeded(d)} }
    IN {p \in all : p # None /\ p.kind = "binary"}

\* C8 as stated: whichever strict an integrator configures, true or false,
\* the binary protocols built carry it.
C8_StrictIsConfigurable ==
    \A strict \in BOOLEAN : \A p \in BinaryProtocols : p.strict = strict

\* C8, amended: the binary input protocol and the binary output protocol the
\* builder makes are always strict; nothing configures the flag.
C8_BinaryProtocolsAreStrict ==
    /\ \A p \in BinaryProtocols : p.strict = TRUE
    /\ \A c \in Calls :
         Succeeded(c) /\ cfg.ip = "binary" /\ cfg.op = "binary" =>
             /\ result[c].val.i_prot.strict = TRUE
             /\ result[c].val.o_prot.strict = TRUE

\* A client over binary protocols was built.
C8_Witness ==
    \E c \in Calls :
        Succeeded(c) /\ result[c].val.i_prot.kind = "binary"
                     /\ result[c].val.o_prot.kind = "binary"

IsPrefix(s, t) == Len(s) <= Len(t) /\ \A i \in DOMAIN s : s[i] = t[i]

\* C9: the statements a build has run are an initial part of open, split,
\* from_read, from_read_transport, from_write, from_write_transport,
\* from_protocol, each once; a build that has wrapped anything had its open
\* and its split succeed.
C9_StepsInOrder ==
    \A c \in Calls :
        /\ IsPrefix(trace[c], StepOrder)
        /\ Len(trace[c]) > 2 =>
             outcome[c].open = "connected" /\ outcome[c].split = "cloned"

\* A build ran all seven statements and returned its client.
C9_Witness ==
    \E c \in Calls : Succeeded(c) /\ trace[c] = StepOrder

\* C10: a connect that has returned tried open exactly once, and split once
\* if open connected and not at all otherwise; a failed connect stopped at
\* the failing statement; nothing is reported before the call returns.
C10_OneAttemptNoRetry ==
    \A c \in Calls :
        /\ Done(c) =>
             /\ Count(trace[c], "open") = 1
             /\ Count(trace[c], "split") =
                    (IF outcome[c].open = "connected" THEN 1 ELSE 0)
             /\ result[c] # None
        /\ Failed(c) =>
             trace[c] = (IF outcome[c].open = "connected"
                         THEN << "open", "split" >> ELSE << "open" >>)
        /\ ~Done(c) =>
             /\ Count(trace[c], "open") <= 1
             /\ Count(trace[c], "split") <= 1
             /\ result[c] = None

\* One connect was refused and returned after its single open; another
\* connected and split once.
C10_Witness ==
    \E c, d \in Calls :
        /\ Failed(c) /\ outcome[c].open = "refused" /\ trace[c] = << "open" >>
        /\ Succeeded(d) /\ Count(trace[d], "split") = 1

====
